---- MODULE Spec2Model ----
(***************************************************************************)
(* The real-time presence and whisper-relay engine of the Sanctuary        *)
(* server, in its three revisions:                                         *)
(*   "native"   src/server.ts (and the first file of src/unnamed/part_000):*)
(*              mongodb driver, isDbConnected gate, join_circle            *)
(*   "joinroom" src/unnamed/part_000, second file: join_room, validation,  *)
(*              io.to(receiverId)                                          *)
(*   "mongoose" src/unnamed/part_001 (and the third file of part_000):     *)
(*              mongoose models, no gate flag                              *)
(* Each socket.io handler runs to completion on the single JavaScript      *)
(* thread; an async handler is split at its await.                         *)
(***************************************************************************)
EXTENDS Integers, Sequences, FiniteSets, TLC

(* ------------------------------ bounds -------------------------------- *)
MaxConn == 2
MaxClock == 2
MaxWrites == 1

Conns == 1..MaxConn
\* Client-supplied identifiers are opaque strings.  "" stands for a missing
\* (undefined) or empty field: both are falsy in JavaScript.  "bob" is a user
\* id and a room id: the join_room revision addresses a whisper to the
\* transport room named after the receiver.
RoomIds == {"r1", "bob"}
RoomInputs == RoomIds \cup {""}
Names == {"Al"}
Revisions == {"native", "joinroom", "mongoose"}
\* The first file of src/unnamed/part_000 is src/server.ts but for its
\* uncaughtException handler, which ends the process; it is told apart only where
\* a handler can throw.
AllRevisions == Revisions \cup {"legacy"}
Kind(r) == IF r = "legacy" THEN "native" ELSE r

VARIABLES
  rev,          \* which server revision runs
  phase,        \* startServer: "connect", "ping" (inside connectToDatabase), "listening"
  isDbConnected,\* the persistence gate flag
  storeUp,      \* environment: the document store is reachable
  live,         \* sockets with an open transport
  closed,       \* sockets whose disconnect has been handled (ids are not reused)
  subs,         \* socket.io transport rooms: channel -> sockets (socket.join)
  activeRooms,  \* Map<roomId, Map<socketId, User>>
  events,       \* events emitted by the handler step just taken
  last,         \* the command that step handled
  inflight,     \* send_whisper handlers suspended at their await, oldest first
  messages,     \* the persisted 'messages' collection
  echoes,       \* the persisted 'echoes' collection
  clock,        \* Date.now()
  lastPresence, \* observer: room -> member list of its latest presence_update
  joined        \* observer: room -> sockets that joined it and are not disconnected

gate == <<phase, isDbConnected, storeUp>>
registry == <<subs, activeRooms>>
relay == <<inflight, messages, clock, echoes>>
observers == <<lastPresence, joined>>
vars == <<rev, phase, isDbConnected, storeUp, live, closed, subs, activeRooms,
          inflight, messages, echoes, clock, events, last, lastPresence, joined>>

(* ------------------------------ helpers ------------------------------- *)
Falsy(v) == v = ""

EmptyMap == [x \in {} |-> x]

RECURSIVE SeqOfSet(_)
SeqOfSet(S) == IF S = {} THEN <<>>
               ELSE LET x == CHOOSE y \in S : TRUE IN <<x>> \o SeqOfSet(S \ {x})

\* Array.from(room.values()); the order of the list is not modelled.
Members(room) == {room[c] : c \in DOMAIN room}

\* io.to(chan): the sockets currently in transport room chan.
InChannel(sub, chan) == IF chan \in DOMAIN sub THEN sub[chan] ELSE {}

Event(n, chan, to, body) == [name |-> n, chan |-> chan, to |-> to, body |-> body]

\* Mutant: the handler never subscribes the socket to the transport room.
SocketJoinMissing(sub, c, roomId) == sub

\* socket.join(roomId)
SocketJoin(sub, c, roomId) ==
  IF roomId \in DOMAIN sub THEN [sub EXCEPT ![roomId] = @ \cup {c}]
  ELSE (roomId :> {c}) @@ sub

\* The transport's id of a socket (socket.id), a string like a room id: it is the
\* socketId peers read in presence_update, and a client may name it as a roomId.
SocketId(c) == "s" \o ToString(c)

\* The transport removes a closing socket from every room before 'disconnect' fires.
SocketLeaveAll(sub, c) == [ch \in DOMAIN sub |-> sub[ch] \ {c}]

(* ------------------------------ observers ----------------------------- *)
RECURSIVE ObservePresence(_, _)
ObservePresence(lp, evs) ==
  IF evs = <<>> THEN lp
  ELSE LET e == Head(evs)
           lp2 == IF e.name = "presence_update"
                  THEN (e.chan :> e.body.members) @@ lp
                  ELSE lp
       IN ObservePresence(lp2, Tail(evs))

Cmd(op, c) == [op |-> op, conn |-> c]

\* The keys of the member map of room r (none when the room has no record).
MemberIds(rooms, r) == IF r \in DOMAIN rooms THEN DOMAIN rooms[r] ELSE {}

\* A join command as handled: 'before' is the room's member keys when the handler
\* started, 'reopened' tells that the room's latest snapshot was the empty one its
\* last member left behind.
JoinCmd(c, rooms, lp, roomId) ==
  [op |-> "join", conn |-> c, before |-> MemberIds(rooms, roomId),
   reopened |-> roomId \in DOMAIN lp /\ lp[roomId] = {}]

(* ------------------------------ handlers ------------------------------ *)
\* Mutant: a socket that is already a member keeps its old record.
RoomSetKeepOld(rooms, roomId, c, user) ==
  LET room == IF roomId \in DOMAIN rooms THEN rooms[roomId] ELSE EmptyMap
  IN (roomId :> (room @@ (c :> user))) @@ rooms

\* Mutant: membership is kept per user: the new record replaces any record of the
\* same userId.
RoomSetByUser(rooms, roomId, c, user) ==
  LET room == IF roomId \in DOMAIN rooms THEN rooms[roomId] ELSE EmptyMap
      others == {k \in DOMAIN room : room[k].userId # user.userId}
  IN (roomId :> ((c :> user) @@ [k \in others |-> room[k]])) @@ rooms

\* Mutant: a connection is in one room at a time: joining a room removes the
\* socket's entry from every other room.
RoomSetLeavesOthers(rooms, roomId, c, user) ==
  LET left == [q \in DOMAIN rooms |-> [m \in DOMAIN rooms[q] \ {c} |-> rooms[q][m]]]
      room == IF roomId \in DOMAIN rooms THEN rooms[roomId] ELSE EmptyMap
  IN (roomId :> ((c :> user) @@ room)) @@ left

\* room.set(socket.id, {...}) after creating the room record when absent
RoomSet(rooms, roomId, c, user) ==
  LET room == IF roomId \in DOMAIN rooms THEN rooms[roomId] ELSE EmptyMap
  IN (roomId :> ((c :> user) @@ room)) @@ rooms

PresenceUpdate(sub, rooms, roomId) ==
  Event("presence_update", roomId, InChannel(sub, roomId),
        [members |-> IF roomId \in DOMAIN rooms THEN Members(rooms[roomId]) ELSE {}])

\* Mutant: presence is tied to the store: a join is dropped while the gate is
\* disconnected.
JoinCircleGated(c, roomId, userId, name) ==
  /\ Kind(rev) \in {"native", "mongoose"}
  /\ c \in live
  /\ IF isDbConnected
     THEN LET sub2 == SocketJoin(subs, c, roomId)
              rooms2 == RoomSet(activeRooms, roomId, c,
                          [socketId |-> c, userId |-> userId, name |-> name, isSpeaking |-> FALSE])
          IN /\ subs' = sub2
             /\ activeRooms' = rooms2
             /\ events' = <<PresenceUpdate(sub2, rooms2, roomId)>>
             /\ joined' = [joined EXCEPT ![roomId] = @ \cup {c}]
     ELSE /\ events' = <<>>
          /\ UNCHANGED <<subs, activeRooms, joined>>
  /\ last' = JoinCmd(c, activeRooms, lastPresence, roomId)
  /\ lastPresence' = ObservePresence(lastPresence, events')
  /\ UNCHANGED <<rev, gate, relay, live, closed>>

\* socket.on('join_circle', ({ roomId, userId, name }) => ...)
JoinCircle(c, roomId, userId, name) ==
  /\ Kind(rev) \in {"native", "mongoose"}
  /\ c \in live
  /\ LET sub2 == SocketJoin(subs, c, roomId)
         rooms2 == RoomSet(activeRooms, roomId, c,
                     [socketId |-> c, userId |-> userId, name |-> name, isSpeaking |-> FALSE])
     IN /\ subs' = sub2
        /\ activeRooms' = rooms2
        /\ events' = <<PresenceUpdate(sub2, rooms2, roomId)>>
  /\ last' = JoinCmd(c, activeRooms, lastPresence, roomId)
  /\ joined' = [joined EXCEPT ![roomId] = @ \cup {c}]
  /\ lastPresence' = ObservePresence(lastPresence, events')
  /\ UNCHANGED <<rev, gate, relay, live, closed>>

\* Mutant: the membership test is dropped and the event goes to the named room
\* whoever sent it (socket.to(roomId).emit with no guard).
VoiceActivityUnguarded(c, roomId, isSpeaking) ==
  /\ Kind(rev) \in {"native", "mongoose"}
  /\ c \in live
  /\ activeRooms' = activeRooms
  /\ events' = <<Event("user_speaking", roomId, InChannel(subs, roomId) \ {c},
                       [socketId |-> c, isSpeaking |-> isSpeaking])>>
  /\ last' = Cmd("voice", c)
  /\ UNCHANGED <<rev, gate, relay, live, closed, subs, observers>>

\* Mutant: the event is emitted but the member's flag is not written.
VoiceActivityNoWrite(c, roomId, isSpeaking) ==
  /\ Kind(rev) \in {"native", "mongoose"}
  /\ c \in live
  /\ activeRooms' = activeRooms
  /\ events' = IF roomId \in DOMAIN activeRooms /\ c \in DOMAIN activeRooms[roomId]
               THEN <<Event("user_speaking", roomId, InChannel(subs, roomId),
                            [socketId |-> c, isSpeaking |-> isSpeaking])>>
               ELSE <<>>
  /\ last' = Cmd("voice", c)
  /\ UNCHANGED <<rev, gate, relay, live, closed, subs, observers>>

\* Mutant: the event is sent with socket.to(roomId), which leaves out the sender.
VoiceActivityExceptSender(c, roomId, isSpeaking) ==
  /\ Kind(rev) \in {"native", "mongoose"}
  /\ c \in live
  /\ IF roomId \in DOMAIN activeRooms /\ c \in DOMAIN activeRooms[roomId]
     THEN /\ activeRooms' = [activeRooms EXCEPT ![roomId][c].isSpeaking = isSpeaking]
          /\ events' = <<Event("user_speaking", roomId, InChannel(subs, roomId) \ {c},
                               [socketId |-> c, isSpeaking |-> isSpeaking])>>
     ELSE /\ activeRooms' = activeRooms
          /\ events' = <<>>
  /\ last' = Cmd("voice", c)
  /\ UNCHANGED <<rev, gate, relay, live, closed, subs, observers>>

\* socket.on('voice_activity', ({ roomId, isSpeaking }) => ...)
VoiceActivity(c, roomId, isSpeaking) ==
  /\ Kind(rev) \in {"native", "mongoose"}
  /\ c \in live
  /\ IF roomId \in DOMAIN activeRooms /\ c \in DOMAIN activeRooms[roomId]
     THEN /\ activeRooms' = [activeRooms EXCEPT ![roomId][c].isSpeaking = isSpeaking]
          /\ events' = <<Event("user_speaking", roomId, InChannel(subs, roomId),
                               [socketId |-> c, isSpeaking |-> isSpeaking])>>
     ELSE /\ activeRooms' = activeRooms
          /\ events' = <<>>
  /\ last' = Cmd("voice", c)
  /\ UNCHANGED <<rev, gate, relay, live, closed, subs, observers>>

\* if (!roomId || !user || !user.userId) throw ...   (user = NoUser: no second argument)
NoUser == [userId |-> "", name |-> "", isSpeaking |-> FALSE]
ValidJoin(roomId, user) == ~Falsy(roomId) /\ ~Falsy(user.userId)

\* socket.on('join_room', (roomId, user) => ...): the member record is the client's
\* user object with socketId overwritten.
JoinRoom(c, roomId, user) ==
  /\ Kind(rev) = "joinroom"
  /\ c \in live
  /\ IF ValidJoin(roomId, user)
     THEN LET sub2 == SocketJoin(subs, c, roomId)
              rooms2 == RoomSet(activeRooms, roomId, c,
                          [socketId |-> c, userId |-> user.userId, name |-> user.name,
                           isSpeaking |-> user.isSpeaking])
          IN /\ subs' = sub2
             /\ activeRooms' = rooms2
             /\ events' = <<PresenceUpdate(sub2, rooms2, roomId)>>
             /\ joined' = [joined EXCEPT ![roomId] = @ \cup {c}]
     ELSE /\ events' = <<Event("error", "", {c}, [message |-> "Failed to join room"])>>
          /\ UNCHANGED <<subs, activeRooms, joined>>
  /\ last' = JoinCmd(c, activeRooms, lastPresence, roomId)
  /\ lastPresence' = ObservePresence(lastPresence, events')
  /\ UNCHANGED <<rev, gate, relay, live, closed>>

\* Mutant: the member is deleted but an emptied room record is kept.
PurgeMembersKeepEmpty(rooms, c) ==
  [r \in DOMAIN rooms |-> [m \in DOMAIN rooms[r] \ {c} |-> rooms[r][m]]]

\* Mutant: the member is deleted but the room record survives its last member
\* with the record of that member still in it.
PurgeMembersKeepLast(rooms, c) ==
  [r \in DOMAIN rooms |->
     IF DOMAIN rooms[r] = {c} THEN rooms[r]
     ELSE [m \in DOMAIN rooms[r] \ {c} |-> rooms[r][m]]]

\* Mutant: the loop stops at the first room that held the socket.
PurgeMembersFirstOnly(rooms, c) ==
  LET mine == {r \in DOMAIN rooms : c \in DOMAIN rooms[r]}
      first == IF mine = {} THEN {} ELSE {CHOOSE r \in mine : TRUE}
      purged == [r \in DOMAIN rooms |->
                   IF r \in first THEN [m \in DOMAIN rooms[r] \ {c} |-> rooms[r][m]]
                   ELSE rooms[r]]
  IN [r \in {q \in DOMAIN rooms : DOMAIN purged[q] # {}} |-> purged[r]]

\* activeRooms.forEach(...) of the disconnect handler: the member is deleted from
\* every room holding it, and a room left empty is deleted.
PurgeMembers(rooms, c) ==
  LET purged == [r \in DOMAIN rooms |-> [m \in DOMAIN rooms[r] \ {c} |-> rooms[r][m]]]
      emptied == {q \in DOMAIN rooms : c \in DOMAIN rooms[q] /\ DOMAIN purged[q] = {}}
  IN [r \in DOMAIN rooms \ emptied |-> purged[r]]

\* Mutant: the snapshot is taken before the member is deleted.
PurgeEventsStale(sub, rooms, c) ==
  LET hit == SeqOfSet({r \in DOMAIN rooms : c \in DOMAIN rooms[r]})
  IN [i \in DOMAIN hit |-> PresenceUpdate(sub, rooms, hit[i])]

\* Mutant: the handler has no members.has(socket.id) test, so a socket that is in
\* no room still has every room sent its snapshot.
PurgeEventsUntested(sub, rooms, c) ==
  LET hit == SeqOfSet(IF \E r \in DOMAIN rooms : c \in DOMAIN rooms[r]
                      THEN {r \in DOMAIN rooms : c \in DOMAIN rooms[r]}
                      ELSE DOMAIN rooms)
      after == PurgeMembers(rooms, c)
  IN [i \in DOMAIN hit |-> PresenceUpdate(sub, after, hit[i])]

\* Mutant: every room of the registry is sent a snapshot, not only the socket's rooms.
PurgeEventsEveryRoom(sub, rooms, c) ==
  LET hit == SeqOfSet(DOMAIN rooms)
      after == PurgeMembers(rooms, c)
  IN [i \in DOMAIN hit |-> PresenceUpdate(sub, after, hit[i])]

\* One presence_update per room that held the socket, carrying the members left.
PurgeEvents(sub, rooms, c) ==
  LET hit == SeqOfSet({r \in DOMAIN rooms : c \in DOMAIN rooms[r]})
      after == PurgeMembers(rooms, c)
  IN [i \in DOMAIN hit |-> PresenceUpdate(sub, after, hit[i])]

\* socket.on('disconnect', () => ...)
Disconnect(c) ==
  /\ c \in live
  /\ live' = live \ {c}
  /\ closed' = closed \cup {c}
  /\ subs' = SocketLeaveAll(subs, c)
  /\ activeRooms' = PurgeMembers(activeRooms, c)
  /\ events' = PurgeEvents(subs', activeRooms, c)
  /\ last' = Cmd("disconnect", c)
  /\ joined' = [r \in DOMAIN joined |-> joined[r] \ {c}]
  /\ lastPresence' = ObservePresence(lastPresence, events')
  /\ UNCHANGED <<rev, gate, relay>>

\* An exception thrown by a socket handler is caught by nothing on the way: it
\* reaches process.on('uncaughtException').  src/server.ts only logs it; the first
\* file of part_000 logs and calls process.exit(1); the mongoose revision registers
\* no handler, so the runtime ends the process.
ExitsOnUncaught(r) == r \in {"legacy", "mongoose"}

\* join_circle or voice_activity sent with no payload object: the handler's
\* parameter ({ roomId, ... }) destructures undefined and throws before its first
\* statement.  When the process ends, its sockets and its registry go with it.
BadPayload(c) ==
  /\ Kind(rev) \in {"native", "mongoose"}
  /\ c \in live
  /\ IF ExitsOnUncaught(rev)
     THEN /\ phase' = "exited"
          /\ isDbConnected' = FALSE
          /\ live' = {}
          /\ closed' = closed \cup live
          /\ subs' = EmptyMap
          /\ activeRooms' = EmptyMap
          /\ inflight' = <<>>
          /\ joined' = [r \in DOMAIN joined |-> {}]
     ELSE UNCHANGED <<phase, isDbConnected, live, closed, subs, activeRooms, inflight, joined>>
  /\ events' = <<>>
  /\ last' = Cmd("bad_payload", c)
  /\ UNCHANGED <<rev, storeUp, messages, echoes, clock, lastPresence>>

\* Mutant: the server listens before connectToDatabase has returned.
ListeningEarly == TRUE

\* httpServer.listen runs only after 'await connectToDatabase()': no socket and no
\* HTTP request is served before.
Listening == phase = "listening"

\* io.on('connection', (socket) => ...): a new socket with a fresh id, which the
\* transport has put in the room named by that id.
Connect(c) ==
  /\ Listening
  /\ c \notin live \cup closed
  /\ live' = live \cup {c}
  /\ subs' = SocketJoin(subs, c, SocketId(c))
  /\ events' = <<>>
  /\ last' = Cmd("connect", c)
  /\ UNCHANGED <<rev, gate, relay, closed, activeRooms, observers>>

(* ------------------------- persistence gate --------------------------- *)
Quiet == /\ events' = <<>>
         /\ UNCHANGED <<rev, relay, live, closed, registry, observers>>

\* await dbClient.connect() resolves.  server.ts sets the flag here, before the
\* ping; the join_room revision sets it only after the ping.
DbConnectResolve ==
  /\ Kind(rev) \in {"native", "joinroom"}
  /\ phase = "connect"
  /\ storeUp
  /\ phase' = "ping"
  /\ isDbConnected' = (Kind(rev) = "native")
  /\ last' = Cmd("db_connect", 0)
  /\ UNCHANGED storeUp
  /\ Quiet

\* await db.command({ ping: 1 }) resolves; startServer goes on to listen.
DbPingResolve ==
  /\ phase = "ping"
  /\ storeUp
  /\ phase' = "listening"
  /\ isDbConnected' = TRUE
  /\ last' = Cmd("db_ping", 0)
  /\ UNCHANGED storeUp
  /\ Quiet

\* Mutant: a failed connect attempt is fatal: the error leaves connectToDatabase
\* and startServer's caller ends the process.
DbRejectFatal ==
  /\ phase \in {"connect", "ping"}
  /\ phase' = "exited"
  /\ isDbConnected' = FALSE
  /\ last' = Cmd("db_reject", 0)
  /\ UNCHANGED storeUp
  /\ Quiet

\* Either await rejects: catch { isDbConnected = false }; startServer goes on to listen.
DbReject ==
  /\ phase \in {"connect", "ping"}
  /\ phase' = "listening"
  /\ isDbConnected' = FALSE
  /\ last' = Cmd("db_reject", 0)
  /\ UNCHANGED storeUp
  /\ Quiet
\* Mutant: the health route reports the store connected whatever the flag says.
HealthBodyFixed(flag) == [status |-> 200, database |-> "connected"]

\* res.status(200).json({ ..., database: isDbConnected ? 'connected' : 'disconnected' })
HealthBody(flag) ==
  [status |-> 200, database |-> IF flag THEN "connected" ELSE "disconnected"]

\* app.get('/health', ...): reads the flag (mongoose.connection.readyState === 1 in
\* the mongoose revision) and answers; served once the server listens.
Health ==
  /\ Listening
  /\ last' = [op |-> "health", conn |-> 0, res |-> HealthBody(isDbConnected)]
  /\ UNCHANGED gate
  /\ Quiet

\* A route answers once its store operation has settled.  mongoose buffers an
\* operation while its connection is opening: it settles when the connection is
\* open, or fails when the store stays unreachable for the buffer timeout.
Settles == Kind(rev) = "mongoose" => (isDbConnected \/ ~storeUp)

\* app.get('/api/messages/:userId', ...): an empty list when the flag is down (the
\* mongoose revision has no flag and always queries), else the user's messages in
\* the store, or status 500 when the query fails.
GetMessages(u) ==
  /\ Listening
  /\ Settles
  /\ last' = [op |-> "get_messages", conn |-> 0,
              res |-> IF Kind(rev) # "mongoose" /\ ~isDbConnected
                      THEN [status |-> 200, body |-> {}]
                      ELSE IF storeUp /\ isDbConnected
                      THEN [status |-> 200,
                            body |-> {m \in messages : m.senderId = u \/ m.receiverId = u}]
                      ELSE [status |-> 500, body |-> {}]]
  /\ UNCHANGED gate
  /\ Quiet

\* app.get('/api/echoes', ...): isDbConnected ? await find()...toArray() : []; the
\* mongoose revision has no flag and always queries.  Status 500 when the query fails.
GetEchoes ==
  /\ Listening
  /\ Settles
  /\ last' = [op |-> "get_echoes", conn |-> 0,
              res |-> IF Kind(rev) # "mongoose" /\ ~isDbConnected
                      THEN [status |-> 200, body |-> {}]
                      ELSE IF storeUp /\ isDbConnected
                      THEN [status |-> 200, body |-> echoes]
                      ELSE [status |-> 500, body |-> {}]]
  /\ UNCHANGED gate
  /\ Quiet

\* The status of a POST /api/echoes whose store write failed: the catch of server.ts
\* and of the mongoose revision answers 400, that of the join_room revision 500.
WriteFailed(r) == IF r = "joinroom" THEN 500 ELSE 400

\* app.post('/api/echoes', ...): 503 when the flag is down (the mongoose revision
\* has no flag and always writes), else the echo is upserted by its id and
\* answered with 201, or the write fails.
PostEchoes(id) ==
  /\ Listening
  /\ Settles
  /\ IF Kind(rev) # "mongoose" /\ ~isDbConnected
     THEN /\ last' = [op |-> "post_echo", conn |-> 0, res |-> [status |-> 503, body |-> {}]]
          /\ UNCHANGED echoes
     ELSE IF storeUp /\ isDbConnected
     THEN /\ last' = [op |-> "post_echo", conn |-> 0, res |-> [status |-> 201, body |-> {id}]]
          /\ echoes' = echoes \cup {id}
     ELSE /\ last' = [op |-> "post_echo", conn |-> 0,
                      res |-> [status |-> WriteFailed(Kind(rev)), body |-> {}]]
          /\ UNCHANGED echoes
  /\ events' = <<>>
  /\ UNCHANGED <<rev, gate, inflight, messages, clock, live, closed, registry, observers>>

(* ---------------------------- whisper relay --------------------------- *)
\* A payload field 'timestamp' that the client did not supply.
NoStamp == -1

\* The Message each revision builds from the payload msgData at server time now:
\* server.ts copies the fields it knows and stamps timestamp and isRead; the
\* join_room revision spreads the payload and overwrites both; the mongoose
\* revision casts the payload through the schema, whose defaults fill only what
\* the client left out.
BuildMessage(r, data, now) ==
  CASE r = "native" ->
         [senderId |-> data.senderId, receiverId |-> data.receiverId,
          cipherText |-> data.cipherText, timestamp |-> now,
          type |-> IF Falsy(data.type) THEN "text" ELSE data.type,
          sharedCircleId |-> data.sharedCircleId, isRead |-> FALSE]
    [] r = "joinroom" -> [data EXCEPT !.timestamp = now, !.isRead = FALSE]
    [] r = "mongoose" ->
         [data EXCEPT !.timestamp = IF @ = NoStamp THEN now ELSE @,
                      !.type = IF Falsy(@) THEN "text" ELSE @]

\* The delivery emission of each revision for the whisper w: io.emit reaches every
\* connected socket, io.to(receiverId) the transport room named receiverId; the
\* mongoose revision emits the payload, not the document.
Deliver(r, sub, conns, w) ==
  CASE r = "native" -> Event("whisper_inbox", w.data.receiverId, conns, w.message)
    [] r = "joinroom" -> Event("receive_whisper", w.data.receiverId,
                               InChannel(sub, w.data.receiverId), w.message)
    [] r = "mongoose" -> Event("whisper_inbox", w.data.receiverId, conns, w.data)

\* if (isDbConnected) { ... insertOne ... }; the mongoose revision always saves.
Persists(r, flag) == r = "mongoose" \/ flag

\* if (!msgData || !msgData.receiverId || !msgData.senderId) throw ...
ValidWhisper(data) == ~Falsy(data.receiverId) /\ ~Falsy(data.senderId)

\* catch (error) { socket.emit('error', ...) }: reaches the socket if still open
SendError(c, conns) == Event("error", "", {c} \cap conns, [message |-> "Failed to send message"])

WhisperStep(op, c, w, end) == [op |-> op, conn |-> c, w |-> w, end |-> end]

\* socket.on('send_whisper', async (msgData) => ...) up to its await, or to its end
\* when nothing is awaited.
SendWhisper(c, data) ==
  /\ c \in live
  /\ LET w == [sender |-> c, data |-> data, message |-> BuildMessage(Kind(rev), data, clock),
               at |-> clock, gateUp |-> isDbConnected, conns |-> live]
     IN IF Kind(rev) = "joinroom" /\ ~ValidWhisper(data)
        THEN /\ events' = <<SendError(c, live)>>
             /\ last' = WhisperStep("send_whisper", c, w, "invalid")
             /\ UNCHANGED inflight
        ELSE IF Persists(Kind(rev), isDbConnected)
        THEN /\ Len(inflight) + Cardinality(messages) < MaxWrites
             /\ inflight' = Append(inflight, w)
             /\ events' = <<>>
             /\ last' = WhisperStep("send_whisper", c, w, "awaiting")
        ELSE /\ events' = <<Deliver(Kind(rev), subs, live, w)>>
             /\ last' = WhisperStep("send_whisper", c, w, "skipped")
             /\ UNCHANGED inflight
  /\ UNCHANGED <<rev, gate, messages, echoes, clock, live, closed, registry, observers>>

RemoveAt(s, i) == [j \in 1..(Len(s) - 1) |-> IF j < i THEN s[j] ELSE s[j + 1]]

\* What the handler emits once its store write has failed: server.ts swallows the
\* error and delivers; the join_room revision reports to the sender; the mongoose
\* revision only logs.
AfterReject(r, sub, conns, w) ==
  CASE r = "native" -> <<Deliver(r, sub, conns, w)>>
    [] r = "joinroom" -> <<SendError(w.sender, conns)>>
    [] r = "mongoose" -> <<>>

\* The awaited insertOne / save resolves: the document is stored and the handler
\* goes on to emit.
InsertResolve(i) ==
  /\ i \in DOMAIN inflight
  /\ storeUp
  /\ Kind(rev) = "mongoose" => isDbConnected   \* a save is buffered until the connection is open
  /\ LET w == inflight[i]
     IN /\ messages' = messages \cup {w.message}
        /\ events' = <<Deliver(Kind(rev), subs, live, w)>>
        /\ last' = WhisperStep("insert_resolved", w.sender, w, "resolved")
  /\ inflight' = RemoveAt(inflight, i)
  /\ UNCHANGED <<rev, gate, echoes, clock, live, closed, registry, observers>>

\* Mutant: a failed store write is treated as the loss of the sender, whose
\* memberships are dropped.
InsertRejectDropsSender(i) ==
  /\ i \in DOMAIN inflight
  /\ LET w == inflight[i]
     IN /\ events' = AfterReject(Kind(rev), subs, live, w)
        /\ last' = WhisperStep("insert_rejected", w.sender, w, "rejected")
        /\ activeRooms' = PurgeMembers(activeRooms, w.sender)
  /\ inflight' = RemoveAt(inflight, i)
  /\ UNCHANGED <<rev, gate, messages, echoes, clock, live, closed, subs, observers>>

\* The awaited insertOne / save rejects (store unreachable, write refused).
InsertReject(i) ==
  /\ i \in DOMAIN inflight
  /\ LET w == inflight[i]
     IN /\ events' = AfterReject(Kind(rev), subs, live, w)
        /\ last' = WhisperStep("insert_rejected", w.sender, w, "rejected")
  /\ inflight' = RemoveAt(inflight, i)
  /\ UNCHANGED <<rev, gate, messages, echoes, clock, live, closed, registry, observers>>

\* Time passes on the server clock.
Tick ==
  /\ clock < MaxClock
  /\ clock' = clock + 1
  /\ last' = Cmd("tick", 0)
  /\ events' = <<>>
  /\ UNCHANGED <<rev, gate, inflight, messages, echoes, live, closed, registry, observers>>

\* Environment: the store becomes unreachable, or reachable again.
StoreFlip ==
  /\ storeUp' = ~storeUp
  /\ last' = Cmd("store", 0)
  /\ events' = <<>>
  /\ UNCHANGED <<rev, phase, isDbConnected, relay, live, closed, registry, observers>>

\* mongoose.connect(...): the library opens the connection, and reopens it after a
\* loss; mongoose.connection.readyState === 1 is this revision's view of the gate.
MongooseConnected ==
  /\ Kind(rev) = "mongoose"
  /\ phase = "listening"
  /\ storeUp
  /\ ~isDbConnected
  /\ isDbConnected' = TRUE
  /\ last' = Cmd("db_open", 0)
  /\ events' = <<>>
  /\ UNCHANGED <<rev, phase, storeUp, relay, live, closed, registry, observers>>

\* client.on('error' | 'disconnected', () => { isDbConnected = false }); in the
\* mongoose revision the library leaves readyState 1.  server.ts has no such handler.
GateLost ==
  /\ Kind(rev) \in {"joinroom", "mongoose"}
  /\ phase = "listening"
  /\ isDbConnected
  /\ ~storeUp
  /\ isDbConnected' = FALSE
  /\ last' = Cmd("db_lost", 0)
  /\ events' = <<>>
  /\ UNCHANGED <<rev, phase, storeUp, relay, live, closed, registry, observers>>

(* --------------------------- specification ---------------------------- *)
Boot(revs) ==
  /\ rev \in revs
  /\ phase = IF Kind(rev) = "mongoose" THEN "listening" ELSE "connect"
  /\ isDbConnected = FALSE
  /\ storeUp = TRUE
  /\ live = {}
  /\ closed = {}
  /\ subs = EmptyMap
  /\ activeRooms = EmptyMap
  /\ events = <<>>
  /\ last = Cmd("boot", 0)
  /\ inflight = <<>>
  /\ messages = {}
  /\ echoes = {}
  /\ clock = 1
  /\ lastPresence = EmptyMap
  /\ joined = [r \in RoomInputs \cup {SocketId(c) : c \in Conns} |-> {}]

Init == Boot(Revisions)

\* Inputs.  A client joins under the identity of its connection session
\* (sockets alternate between the two users, so a third socket is a second device
\* of the first user); a join_room payload may also lack the user object.
UserOf(c) == IF c % 2 = 1 THEN "alice" ELSE "bob"
UserObjects(c) == [userId : {UserOf(c)}, name : Names, isSpeaking : BOOLEAN] \cup {NoUser}

Next ==
  \/ DbConnectResolve
  \/ DbPingResolve
  \/ DbReject
  \/ MongooseConnected
  \/ \E c \in Conns : Connect(c)
  \/ \E c \in Conns, r \in RoomIds, n \in Names : JoinCircle(c, r, UserOf(c), n)
  \/ \E c \in Conns, r \in RoomInputs : \E u \in UserObjects(c) : JoinRoom(c, r, u)
  \/ \E c \in Conns, r \in RoomInputs, s \in BOOLEAN : VoiceActivity(c, r, s)
  \/ \E c \in Conns : Disconnect(c)

Spec == Init /\ [][Next]_vars

\* The relay with its store: whisper payloads vary, presence is kept to joins.
\* A well-formed payload to each receiver, and that payload with one thing wrong:
\* no sender, no receiver, a client-made timestamp and read flag, an explicit kind.
Receivers == {"bob", "carol"}
GoodWhisper(c, rcv) ==
  [senderId |-> UserOf(c), receiverId |-> rcv, cipherText |-> "c1", timestamp |-> NoStamp,
   type |-> "", sharedCircleId |-> "", isRead |-> FALSE]
WhisperInputs(c) ==
  {GoodWhisper(c, rcv) : rcv \in Receivers}
    \cup {[GoodWhisper(c, "bob") EXCEPT !.senderId = ""],
          [GoodWhisper(c, "bob") EXCEPT !.receiverId = ""],
          [GoodWhisper(c, "bob") EXCEPT !.timestamp = 0, !.isRead = TRUE],
          [GoodWhisper(c, "bob") EXCEPT !.type = "image"]}

NextRelay ==
  \/ DbConnectResolve
  \/ DbPingResolve
  \/ DbReject
  \/ MongooseConnected
  \/ GateLost
  \/ StoreFlip
  \/ Tick
  \/ \E c \in Conns : Connect(c)
  \/ \E c \in Conns, n \in Names :
        JoinRoom(c, UserOf(c), [userId |-> UserOf(c), name |-> n, isSpeaking |-> FALSE])
  \/ \E c \in Conns : Disconnect(c)
  \/ \E c \in Conns : \E d \in WhisperInputs(c) : SendWhisper(c, d)
  \/ \E i \in 1..MaxWrites : InsertResolve(i)
  \/ \E i \in 1..MaxWrites : InsertReject(i)

SpecRelay == Init /\ [][NextRelay]_vars

\* Joins as clients may send them: every socket may be a device of the same user,
\* and room id and user id may be missing.
UserInputs == {"alice", ""}
JoinRooms == {"r1", ""}
NextJoin ==
  \/ DbConnectResolve
  \/ DbPingResolve
  \/ DbReject
  \/ MongooseConnected
  \/ \E c \in Conns : Connect(c)
  \/ \E c \in Conns, r \in JoinRooms, u \in UserInputs, n \in Names : JoinCircle(c, r, u, n)
  \/ \E c \in Conns, r \in JoinRooms, u \in UserInputs, n \in Names :
        JoinRoom(c, r, [userId |-> u, name |-> n, isSpeaking |-> FALSE])
  \/ \E c \in Conns, r \in JoinRooms : JoinRoom(c, r, NoUser)
  \/ \E c \in Conns : Disconnect(c)

SpecJoin == Init /\ [][NextJoin]_vars

\* Payloads that make a handler throw, in every revision, the first file of
\* part_000 included.
InitFaults == Boot(AllRevisions)
NextFaults ==
  \/ DbConnectResolve
  \/ DbPingResolve
  \/ DbReject
  \/ MongooseConnected
  \/ \E c \in Conns : Connect(c)
  \/ \E c \in Conns, n \in Names : JoinCircle(c, "r1", UserOf(c), n)
  \/ \E c \in Conns, n \in Names :
        JoinRoom(c, "r1", [userId |-> UserOf(c), name |-> n, isSpeaking |-> FALSE])
  \/ \E c \in Conns, s \in BOOLEAN : VoiceActivity(c, "r1", s)
  \/ \E c \in Conns : Disconnect(c)
  \/ \E c \in Conns : BadPayload(c)

SpecFaults == InitFaults /\ [][NextFaults]_vars

\* The operational surface: startup, the health route, one room and one
\* well-formed whisper payload per socket, with the store coming and going.
NextOps ==
  \/ DbConnectResolve
  \/ DbPingResolve
  \/ DbReject
  \/ MongooseConnected
  \/ GateLost
  \/ StoreFlip
  \/ Health
  \/ \E u \in {"alice", "bob"} : GetMessages(u)
  \/ \E c \in Conns : Connect(c)
  \/ \E c \in Conns, n \in Names : JoinCircle(c, "r1", UserOf(c), n)
  \/ \E c \in Conns, n \in Names :
        JoinRoom(c, "r1", [userId |-> UserOf(c), name |-> n, isSpeaking |-> FALSE])
  \/ \E c \in Conns : Disconnect(c)
  \/ \E c \in Conns : SendWhisper(c, GoodWhisper(c, "bob"))
  \/ \E i \in 1..MaxWrites : InsertResolve(i)
  \/ \E i \in 1..MaxWrites : InsertReject(i)

SpecOps == Init /\ [][NextOps]_vars

\* Startup and what follows it.  The awaits of connectToDatabase settle: the
\* driver gives up a connect or a ping after its connect and server-selection
\* timeouts, so startServer is not suspended for ever.
DbSettles == DbConnectResolve \/ DbPingResolve \/ DbReject
NextBoot ==
  \/ DbConnectResolve
  \/ DbPingResolve
  \/ DbReject
  \/ MongooseConnected
  \/ \E c \in Conns : Connect(c)
  \/ \E c \in Conns, n \in Names : JoinCircle(c, "r1", UserOf(c), n)
  \/ \E c \in Conns, n \in Names :
        JoinRoom(c, "r1", [userId |-> UserOf(c), name |-> n, isSpeaking |-> FALSE])
  \/ \E c \in Conns, s \in BOOLEAN : VoiceActivity(c, "r1", s)
  \/ \E c \in Conns : Disconnect(c)
  \/ \E c \in Conns : SendWhisper(c, GoodWhisper(c, "bob"))
  \/ \E i \in 1..MaxWrites : InsertResolve(i)
  \/ \E i \in 1..MaxWrites : InsertReject(i)

SpecBoot == Init /\ [][NextBoot]_vars /\ WF_vars(DbSettles)

\* Rooms named by a socket id.  Clients join a shared room, or the room named by
\* the id of the first socket, which they have read in a snapshot.
ChannelRooms == {"r1", SocketId(1)}
NextChannels ==
  \/ DbConnectResolve
  \/ DbPingResolve
  \/ DbReject
  \/ MongooseConnected
  \/ \E c \in Conns : Connect(c)
  \/ \E c \in Conns, r \in ChannelRooms, n \in Names : JoinCircle(c, r, UserOf(c), n)
  \/ \E c \in Conns, r \in ChannelRooms, n \in Names :
        JoinRoom(c, r, [userId |-> UserOf(c), name |-> n, isSpeaking |-> FALSE])
  \/ \E c \in Conns, r \in ChannelRooms, s \in BOOLEAN : VoiceActivity(c, r, s)
  \/ \E c \in Conns : Disconnect(c)

SpecChannels == Init /\ [][NextChannels]_vars

\* Presence in one room while the store comes and goes and the gate follows.
NextPresence ==
  \/ DbConnectResolve
  \/ DbPingResolve
  \/ DbReject
  \/ MongooseConnected
  \/ GateLost
  \/ StoreFlip
  \/ \E c \in Conns : Connect(c)
  \/ \E c \in Conns, n \in Names : JoinCircle(c, "r1", UserOf(c), n)
  \/ \E c \in Conns, n \in Names :
        JoinRoom(c, "r1", [userId |-> UserOf(c), name |-> n, isSpeaking |-> FALSE])
  \/ \E c \in Conns, s \in BOOLEAN : VoiceActivity(c, "r1", s)
  \/ \E c \in Conns : Disconnect(c)

SpecPresence == Init /\ [][NextPresence]_vars

\* The REST routes over the store, with whispers filling the messages collection
\* and the store coming and going.
EchoIds == {"e1", "e2"}
NextRest ==
  \/ DbConnectResolve
  \/ DbPingResolve
  \/ DbReject
  \/ MongooseConnected
  \/ GateLost
  \/ StoreFlip
  \/ GetEchoes
  \/ \E id \in EchoIds : PostEchoes(id)
  \/ \E u \in {"alice", "bob"} : GetMessages(u)
  \/ \E c \in Conns : Connect(c)
  \/ \E c \in Conns : SendWhisper(c, GoodWhisper(c, "bob"))
  \/ \E i \in 1..MaxWrites : InsertResolve(i)
  \/ \E i \in 1..MaxWrites : InsertReject(i)

SpecRest == Init /\ [][NextRest]_vars

(* ------------------------------ properties ---------------------------- *)
SnapshotIds(members) == {m.socketId : m \in members}
EventsNamed(evs, n) == {i \in DOMAIN evs : evs[i].name = n}

\* C1: the member list of the latest presence_update of every room is exactly the
\* set of sockets that joined the room and have not disconnected since.
PresenceMatchesJoined ==
  \A r \in DOMAIN lastPresence : SnapshotIds(lastPresence[r]) = joined[r]

\* C1 witness: a disconnect has just sent a room a snapshot that still lists a member.
PresenceAfterDisconnect ==
  /\ last.op = "disconnect"
  /\ \E i \in DOMAIN events :
       /\ events[i].body.members # {}
       /\ lastPresence[events[i].chan] = events[i].body.members

\* C2: between handlers a room is a key of activeRooms exactly when it has a member;
\* no room record is left with an empty member map.
RoomExistsIffOccupied ==
  \A r \in RoomInputs : (r \in DOMAIN activeRooms) <=> (MemberIds(activeRooms, r) # {})

\* C2 witness: a room whose last member disconnected is gone while another remains.
RoomDeletedOnLastLeave ==
  /\ last.op = "disconnect"
  /\ \E r \in DOMAIN lastPresence : lastPresence[r] = {} /\ r \notin DOMAIN activeRooms
  /\ activeRooms # EmptyMap

\* C3: the disconnect of a socket that is in N rooms emits exactly N presence_update
\* events, one addressed to each of those rooms and none to any other room.
DisconnectEmitsPerRoom ==
  [][\A c \in Conns :
       (c \in live /\ c \notin live') =>
         LET mine == {r \in DOMAIN activeRooms : c \in DOMAIN activeRooms[r]}
         IN /\ Len(events') = Cardinality(mine)
            /\ \A i \in DOMAIN events' :
                 events'[i].name = "presence_update" /\ events'[i].chan \in mine
            /\ \A r \in mine : \E i \in DOMAIN events' : events'[i].chan = r]_vars

\* C3 witness: the disconnect of a socket that was in two rooms (N = 2).
DisconnectFromTwoRooms ==
  /\ last.op = "disconnect"
  /\ Len(events) = 2
  /\ events[1].chan # events[2].chan

WhisperOps == {"send_whisper", "insert_resolved", "insert_rejected"}
IsWhisperStep == last.op \in WhisperOps
\* the handler of an accepted whisper has run to its end in the step just taken
WhisperDone == IsWhisperStep /\ last.end \in {"skipped", "resolved", "rejected"}
\* the payload names both parties
HasBothIds == last.w.data.senderId # "" /\ last.w.data.receiverId # ""
IsDelivery(e) == e.name \in {"whisper_inbox", "receive_whisper"}
Deliveries == {i \in DOMAIN events : IsDelivery(events[i])}

\* C4: a whisper sent while the gate is disconnected still has its delivery event
\* emitted and no error event goes to the sender, in every revision.
GateDownStillDelivers ==
  (WhisperDone /\ HasBothIds /\ ~last.w.gateUp) =>
     /\ Deliveries # {}
     /\ EventsNamed(events, "error") = {}

\* C5: with the gate connected, a whisper whose store write rejects is still delivered.
RejectedWriteStillDelivers ==
  (IsWhisperStep /\ HasBothIds /\ last.end = "rejected" /\ last.w.gateUp) => Deliveries # {}

\* C6: the delivery event does not wait for the store write: a handler that is
\* suspended at its insert has already emitted the delivery.
DeliveryDoesNotAwaitInsert ==
  (IsWhisperStep /\ HasBothIds /\ last.w.gateUp /\ last.end = "awaiting") => Deliveries # {}

\* C7: a send_whisper without senderId or receiverId is rejected: nothing is
\* persisted or delivered, and only the sending socket is told.
MissingIdsRejected ==
  (IsWhisperStep /\ ~HasBothIds) =>
     /\ last.end = "invalid"
     /\ Deliveries = {}
     /\ \A i \in DOMAIN events : events[i].name = "error" /\ events[i].to = {last.conn}

\* C8: a whisper's delivery event reaches only sockets of the receiver's user and
\* the sender's own socket.
WhisperReachesOnlyParties ==
  (IsWhisperStep /\ HasBothIds) =>
    \A i \in Deliveries : \A c \in events[i].to :
       c = last.w.sender \/ UserOf(c) = last.w.data.receiverId

\* C9: every accepted send_whisper has its constructed Message emitted back to the
\* sending socket, whatever became of the receiver and of the store write.
AcceptedWhisperAcked ==
  (WhisperDone /\ HasBothIds /\ last.w.sender \in live) =>
     \E i \in Deliveries : last.w.sender \in events[i].to /\ events[i].body = last.w.message

\* C10: a delivered or persisted whisper carries the server clock value read when
\* the command was handled and isRead = false, whatever the payload said.
ServerStampsWhisper ==
  IsWhisperStep =>
     /\ \A i \in Deliveries :
          events[i].body.timestamp = last.w.at /\ events[i].body.isRead = FALSE
     /\ last.end = "resolved" =>
          last.w.message.timestamp = last.w.at /\ last.w.message.isRead = FALSE

RoomsOf(rooms, c) == {r \in DOMAIN rooms : c \in DOMAIN rooms[r]}

PurgeIsIdempotent ==
  [][\A c \in Conns :
       (c \in live /\ c \notin live') =>
          /\ PurgeMembers(activeRooms', c) = activeRooms'
          /\ PurgeEvents(subs', activeRooms', c) = <<>>
          /\ RoomsOf(activeRooms, c) = {} => (activeRooms' = activeRooms /\ events' = <<>>)]_vars

\* C12 witness: a disconnect has purged a socket from a room that stays occupied,
\* and the purge run again on the result for the same socket is without effect.
PurgedTwice ==
  /\ last.op = "disconnect"
  /\ events # <<>>
  /\ activeRooms # EmptyMap
  /\ PurgeMembers(activeRooms, last.conn) = activeRooms
  /\ PurgeEvents(subs, activeRooms, last.conn) = <<>>

ReopenedRoomStartsEmpty ==
  [][/\ \A c \in Conns : (c \in live /\ c \notin live') =>
          \A r \in DOMAIN activeRooms : DOMAIN activeRooms[r] = {c} => r \notin DOMAIN activeRooms'
     /\ (last'.op = "join" /\ EventsNamed(events', "presence_update") # {} /\ last'.reopened) =>
          /\ events'[1].chan \notin DOMAIN activeRooms
          /\ SnapshotIds(events'[1].body.members) = {last'.conn}
          /\ MemberIds(activeRooms', events'[1].chan) = {last'.conn}]_vars

\* C14 witness: a socket has joined a room that an earlier, now disconnected socket
\* had left empty.
JoinedVacatedRoom ==
  /\ last.op = "join"
  /\ last.reopened
  /\ closed # {}
  /\ EventsNamed(events, "presence_update") # {}
  /\ SnapshotIds(events[1].body.members) = {last.conn}

\* C15: a socket whose disconnect has been handled is a member of no room: every
\* member key of every room is a live socket, and with no live socket left the
\* registry has no room.
MembersAreLive ==
  /\ \A r \in DOMAIN activeRooms : DOMAIN activeRooms[r] \subseteq live
  /\ \A c \in closed : RoomsOf(activeRooms, c) = {}
  /\ live = {} => activeRooms = EmptyMap

\* C15 witness: every socket has disconnected, the last of them from two rooms.
AllGone ==
  /\ last.op = "disconnect"
  /\ live = {}
  /\ closed = Conns
  /\ Len(events) = 2
  /\ activeRooms = EmptyMap

\* C16: every presence_update is addressed to every socket that is a member of its
\* room when it is emitted, the joiner included, and the snapshot of a join lists
\* the members the room had plus the joiner.
PresenceReachesMembers ==
  \A i \in EventsNamed(events, "presence_update") :
     /\ MemberIds(activeRooms, events[i].chan) \subseteq events[i].to
     /\ SnapshotIds(events[i].body.members) \subseteq events[i].to
     /\ last.op = "join" =>
          /\ last.conn \in events[i].to
          /\ SnapshotIds(events[i].body.members) = last.before \cup {last.conn}

\* C16 witness: the second socket has joined a room; its snapshot lists both
\* members and is addressed to both.
SecondJoinSeesBoth ==
  /\ last.op = "join"
  /\ Cardinality(last.before) = 1
  /\ last.conn \notin last.before
  /\ EventsNamed(events, "presence_update") # {}
  /\ events[1].to = last.before \cup {last.conn}
  /\ SnapshotIds(events[1].body.members) = events[1].to

\* C17: a handler mutates the registry and emits in one step, so every event of a
\* step carries the registry state that step produced: a presence_update the
\* member records of its room, a user_speaking the flag stored for its socket.
EventsCarryRegistryState ==
  \A i \in DOMAIN events :
     /\ events[i].name = "presence_update" =>
          events[i].body.members =
            (IF events[i].chan \in DOMAIN activeRooms
             THEN Members(activeRooms[events[i].chan]) ELSE {})
     /\ events[i].name = "user_speaking" =>
          /\ events[i].body.socketId \in MemberIds(activeRooms, events[i].chan)
          /\ activeRooms[events[i].chan][events[i].body.socketId].isSpeaking
               = events[i].body.isSpeaking

\* C17 witness: in a room of two, one member has started speaking and both are told.
SpeakingObserved ==
  /\ last.op = "voice"
  /\ events # <<>>
  /\ events[1].body.isSpeaking
  /\ Cardinality(events[1].to) = 2
  /\ Cardinality(MemberIds(activeRooms, events[1].chan)) = 2

\* C18: no store operation is invoked while the gate is disconnected: a whisper
\* handler that is waiting for its store write found the gate connected when it
\* made the call.
StoreOpOnlyWhenGateUp ==
  (IsWhisperStep /\ HasBothIds /\ last.end = "awaiting") => last.w.gateUp

\* A step that connects the gate.
GateConnects == DbConnectResolve \/ DbPingResolve \/ MongooseConnected

\* C19: a disconnected gate is not permanent: when the store has become reachable
\* again while the server is up with its gate disconnected, the server can still
\* take a step that connects the gate.
GateCanRecover ==
  (last.op = "store" /\ storeUp /\ phase = "listening" /\ ~isDbConnected) =>
     ENABLED GateConnects

\* C20: a connection error detected after the gate became connected clears the
\* flag: when a store write has been rejected with the store unreachable, the gate
\* is disconnected or the server can still take the step that disconnects it.
ErrorClearsGate ==
  (IsWhisperStep /\ last.end = "rejected" /\ last.w.gateUp /\ ~storeUp) =>
     (~isDbConnected \/ ENABLED GateLost)

\* C21: no handler sees the gate connected during a connect attempt that fails:
\* a request or socket handler runs only once the attempt is over, and an attempt
\* that failed has left the flag disconnected.
GateSeenOnlyAfterAttempt ==
  /\ last.op \in {"health", "connect", "join", "disconnect"} \cup WhisperOps => phase = "listening"
  /\ phase # "listening" => (live = {} /\ closed = {})
  /\ last.op = "db_reject" => ~isDbConnected

\* C21 witness: server.ts has set the flag and is waiting for its ping, which may
\* still fail; no socket is connected.
FlagUpDuringPing ==
  /\ phase = "ping"
  /\ isDbConnected
  /\ last.op = "db_connect"
  /\ live = {}

\* C22: with the gate connected, a whisper whose store write fails brings its
\* sender no error event.
FailedWriteIsSilent ==
  (IsWhisperStep /\ HasBothIds /\ last.end = "rejected" /\ last.w.gateUp) =>
     EventsNamed(events, "error") = {}

MembershipPerSocket ==
  [][/\ (last'.op = "join" /\ EventsNamed(events', "presence_update") # {}) =>
          /\ MemberIds(activeRooms', events'[1].chan) = last'.before \cup {last'.conn}
          /\ Cardinality(events'[1].body.members)
               = Cardinality(last'.before \cup {last'.conn})
     /\ \A c \in Conns : (c \in live /\ c \notin live') =>
          \A r \in DOMAIN activeRooms :
             MemberIds(activeRooms', r) = MemberIds(activeRooms, r) \ {c}]_vars

\* C24 witness: a second socket has joined a room under the userId of the member
\* already there, and the snapshot lists two members with that userId.
SameUserTwice ==
  /\ last.op = "join"
  /\ Cardinality(last.before) = 1
  /\ last.conn \notin last.before
  /\ EventsNamed(events, "presence_update") # {}
  /\ Cardinality(events[1].body.members) = 2
  /\ \A m \in events[1].body.members : m.userId = "alice"

\* C25: a join with a missing or empty roomId or userId is a no-op: no room record
\* is made under an empty room id, no member is recorded with an empty userId, and
\* no presence_update is emitted for such a join.
MalformedJoinIsNoOp ==
  /\ "" \notin DOMAIN activeRooms
  /\ \A r \in DOMAIN activeRooms : \A c \in DOMAIN activeRooms[r] : activeRooms[r][c].userId # ""
  /\ last.op = "join" =>
       \A i \in EventsNamed(events, "presence_update") :
          /\ events[i].chan # ""
          /\ \A m \in events[i].body.members : m.socketId = last.conn => m.userId # ""

\* C26: a command with no payload object, sent while another socket is a member
\* of a room, never ends the process and leaves the sockets, the memberships and
\* the transport rooms of the other connections as they were.
BadPayloadIsIsolated ==
  [][(/\ last'.op = "bad_payload"
      /\ \E d \in live \ {last'.conn} : RoomsOf(activeRooms, d) # {}) =>
       /\ phase' = phase
       /\ live' = live
       /\ activeRooms' = activeRooms
       /\ subs' = subs]_vars

\* C27: a whisper is not queued for a receiver without a live connection: its
\* delivery event reaches no socket of the receiver that connected after the
\* command was sent, and it is emitted at most once.
WhisperNotQueued ==
  (IsWhisperStep /\ HasBothIds) =>
     /\ Cardinality(Deliveries) <= 1
     /\ \A i \in Deliveries : \A c \in events[i].to :
          UserOf(c) = last.w.data.receiverId => c \in last.w.conns

\* C28: room and member state is written by the join, activity and disconnect
\* handlers only: across a step of send_whisper or of its store write, of a REST
\* route or of the database connect routine, activeRooms is unchanged.
RegistryHasOneWriter ==
  [][last'.op \notin {"join", "voice", "disconnect"} => activeRooms' = activeRooms]_vars

\* C28 witness: the store write of a whisper whose sender is a member of a room
\* has failed, and the sender is still a member.
MemberWhisperFailed ==
  /\ last.op = "insert_rejected"
  /\ RoomsOf(activeRooms, last.w.sender) # {}

\* C29: a delivered whisper carries the cipherText of the payload unchanged, and
\* as its kind the payload's type, or "text" when the payload has none.
ContentPassedThrough ==
  (IsWhisperStep /\ HasBothIds) =>
     \A i \in {d \in Deliveries : events[d].to # {}} :
        /\ events[i].body.cipherText = last.w.data.cipherText
        /\ events[i].body.type = (IF last.w.data.type = "" THEN "text" ELSE last.w.data.type)

\* C30: the /health response has status 200 and says "connected" exactly when the
\* gate flag is connected at the request, "disconnected" otherwise.
HealthReportsGate ==
  last.op = "health" =>
     /\ last.res.status = 200
     /\ last.res.database \in {"connected", "disconnected"}
     /\ last.res.database = "connected" <=> isDbConnected

\* C30 witness: a health request answered while the server runs with its gate
\* disconnected and a socket connected.
HealthSeesGateDown ==
  /\ last.op = "health"
  /\ last.res.database = "disconnected"
  /\ ~isDbConnected
  /\ live # {}

RestOps == {"get_echoes", "get_messages", "post_echo"}

\* C31: a REST request served while the gate is disconnected leaves the store
\* alone: GET /api/echoes and GET /api/messages/:userId answer an empty list, and
\* POST /api/echoes answers 503 and writes nothing.
GateDownRestDegrades ==
  [][(last'.op \in RestOps /\ ~isDbConnected) =>
       /\ echoes' = echoes
       /\ messages' = messages
       /\ last'.op \in {"get_echoes", "get_messages"} => last'.res = [status |-> 200, body |-> {}]
       /\ last'.op = "post_echo" => last'.res.status = 503]_vars

\* C32: the sockets subscribed to the transport channel of a room are exactly the
\* keys of the room's member map, so every room-addressed event reaches exactly
\* the members the registry holds for its room.
ChannelMatchesRegistry ==
  /\ \A r \in DOMAIN activeRooms : InChannel(subs, r) = DOMAIN activeRooms[r]
  /\ \A i \in DOMAIN events :
       events[i].name \in {"presence_update", "user_speaking"} =>
          events[i].to = MemberIds(activeRooms, events[i].chan)

\* C33: an accepted join to room r changes only room r.  It emits one event, the
\* presence_update of r; the joiner is then a member of r and of every room it
\* was a member of; the record and the channel of every other room are unchanged.
JoinChangesOnlyItsRoom ==
  [][(last'.op = "join" /\ EventsNamed(events', "error") = {}) =>
       /\ Len(events') = 1
       /\ events'[1].name = "presence_update"
       /\ LET c == last'.conn
              r == events'[1].chan
          IN /\ RoomsOf(activeRooms', c) = RoomsOf(activeRooms, c) \cup {r}
             /\ DOMAIN activeRooms' = DOMAIN activeRooms \cup {r}
             /\ \A q \in DOMAIN activeRooms \ {r} : activeRooms'[q] = activeRooms[q]
             /\ \A q \in (DOMAIN subs \cup DOMAIN subs') \ {r} :
                  InChannel(subs', q) = InChannel(subs, q)]_vars

\* C33 witness: a socket that shares a room with another socket has joined a
\* second room; it is now a member of both, and the other socket of the first only.
JoinedSecondRoom ==
  /\ last.op = "join"
  /\ EventsNamed(events, "presence_update") # {}
  /\ last.before = {}
  /\ Cardinality(RoomsOf(activeRooms, last.conn)) = 2
  /\ \E d \in live \ {last.conn} :
       /\ Cardinality(RoomsOf(activeRooms, d)) = 1
       /\ RoomsOf(activeRooms, d) \subseteq RoomsOf(activeRooms, last.conn)

GateOps == {"db_connect", "db_ping", "db_reject", "db_open", "db_lost", "store"}
PresenceOps == {"join", "voice", "disconnect"}

\* What a join, an activity and a disconnect yield -- transport rooms, registry,
\* events -- computed from the transport rooms and the registry alone.
AfterJoin(c, r, user) ==
  LET sub2 == SocketJoin(subs, c, r)
      rooms2 == RoomSet(activeRooms, r, c, user)
  IN <<sub2, rooms2, <<PresenceUpdate(sub2, rooms2, r)>>>>
AfterVoice(c, r, s) ==
  IF c \in MemberIds(activeRooms, r)
  THEN <<subs, [activeRooms EXCEPT ![r][c].isSpeaking = s],
         <<Event("user_speaking", r, InChannel(subs, r), [socketId |-> c, isSpeaking |-> s])>>>>
  ELSE <<subs, activeRooms, <<>>>>
AfterDisconnect(c) ==
  <<SocketLeaveAll(subs, c), PurgeMembers(activeRooms, c),
    PurgeEvents(SocketLeaveAll(subs, c), activeRooms, c)>>

\* Every presence command of a live socket is handled, whatever the gate.
PresenceServed ==
  \A c \in live :
     /\ ENABLED Disconnect(c)
     /\ \A n \in Names :
          IF Kind(rev) = "joinroom"
          THEN ENABLED JoinRoom(c, "r1", [userId |-> UserOf(c), name |-> n, isSpeaking |-> FALSE])
          ELSE /\ ENABLED JoinCircle(c, "r1", UserOf(c), n)
               /\ \A s \in BOOLEAN : ENABLED VoiceActivity(c, "r1", s)

\* C34: presence does not depend on the persistence gate.  A step of the gate or
\* of the store changes no socket, room or member and emits nothing; a join, an
\* activity or a disconnect is handled in every gate state, leaves the gate as it
\* was, and its registry state and events are those computed from the registry
\* alone.  Two runs of the same presence commands therefore agree on registry
\* states and presence events however their gates differ.
PresenceIgnoresGate ==
  /\ []PresenceServed
  /\ [][/\ last'.op \in GateOps =>
             (/\ <<live', closed', subs', activeRooms'>> = <<live, closed, subs, activeRooms>>
              /\ events' = <<>>)
        /\ last'.op \in PresenceOps =>
             (/\ <<phase', isDbConnected', storeUp'>> = <<phase, isDbConnected, storeUp>>
              /\ LET c == last'.conn
                     out == <<subs', activeRooms', events'>>
                 IN CASE last'.op = "join" ->
                           \E n \in Names :
                              out = AfterJoin(c, "r1", [socketId |-> c, userId |-> UserOf(c),
                                                        name |-> n, isSpeaking |-> FALSE])
                      [] last'.op = "voice" -> \E s \in BOOLEAN : out = AfterVoice(c, "r1", s)
                      [] last'.op = "disconnect" -> out = AfterDisconnect(c))]_vars

\* C34 witness: in a room of two, a member's activity has been handled and sent
\* to both while the store is unreachable and the gate disconnected.
SpeakingWhileGateDown ==
  /\ last.op = "voice"
  /\ events # <<>>
  /\ Cardinality(events[1].to) = 2
  /\ ~isDbConnected
  /\ ~storeUp

\* C35: a member's isSpeaking flag is the value of its latest voice_activity for
\* the room since its latest join to it, and false when there was none: a join
\* lists the joiner with the flag false (a repeated join resets it), an activity
\* of a member sets its flag in that room to the value sent, and no other step
\* changes the flag of a member that stays.
SpeakingFollowsActivity ==
  [][/\ (last'.op = "join" /\ EventsNamed(events', "presence_update") # {}) =>
          \A m \in events'[1].body.members : m.socketId = last'.conn => ~m.isSpeaking
     /\ (last'.op = "voice" /\ events' # <<>>) =>
          activeRooms'[events'[1].chan][last'.conn].isSpeaking = events'[1].body.isSpeaking
     /\ \A r \in DOMAIN activeRooms \cap DOMAIN activeRooms' :
          \A c \in DOMAIN activeRooms[r] \cap DOMAIN activeRooms'[r] :
             (last'.op \notin {"join", "voice"} \/ last'.conn # c) =>
                activeRooms'[r][c].isSpeaking = activeRooms[r][c].isSpeaking]_vars

\* The server is up with its gate disconnected and serves: a new socket can
\* connect, and every live socket has its join, activity, disconnect and whisper
\* handled (a handler that writes to the store, up to MaxWrites writes).
ServesDegraded ==
  (phase = "listening" /\ ~isDbConnected) =>
     /\ \A c \in Conns \ (live \cup closed) : ENABLED Connect(c)
     /\ PresenceServed
     /\ \A c \in live :
          (Persists(Kind(rev), isDbConnected) => Len(inflight) + Cardinality(messages) < MaxWrites)
             => ENABLED SendWhisper(c, GoodWhisper(c, "bob"))

\* C36: a failed initial database connection is not fatal.  startServer always
\* comes to listen; when the connect attempt has failed it listens with the gate
\* disconnected; and a server listening with its gate disconnected handles
\* connections, joins, activity, whispers and disconnects, a whisper of the
\* revisions that have startServer being delivered in the step that handles it.
FailedConnectNotFatal ==
  /\ <>(phase = "listening")
  /\ [](last.op = "db_reject" => (phase = "listening" /\ ~isDbConnected))
  /\ []ServesDegraded
  /\ []((IsWhisperStep /\ Kind(rev) # "mongoose" /\ ~last.w.gateUp) =>
          (last.end = "skipped" /\ Deliveries # {}))

\* C36 witness: server.ts, whose connect attempt failed, has delivered the whisper
\* of a socket that is a member of a room, with the gate disconnected.
WhisperAfterFailedConnect ==
  /\ rev = "native"
  /\ phase = "listening"
  /\ ~isDbConnected
  /\ IsWhisperStep
  /\ last.end = "skipped"
  /\ Deliveries # {}
  /\ RoomsOf(activeRooms, last.conn) # {}

\* C37: an accepted send_whisper handled with the gate connected makes one insert
\* attempt for its message, and none with the gate disconnected; an attempt that
\* settles is not made again: the one that resolved has stored its message once,
\* the one that rejected has stored nothing and is not retried.
OneInsertPerWhisper ==
  [][/\ (last'.op = "send_whisper" /\ last'.end # "invalid") =>
          inflight' = (IF isDbConnected THEN Append(inflight, last'.w) ELSE inflight)
     /\ last'.op \in {"insert_resolved", "insert_rejected"} =>
          /\ Len(inflight') = Len(inflight) - 1
          /\ \E i \in DOMAIN inflight : inflight[i] = last'.w /\ inflight' = RemoveAt(inflight, i)
          /\ messages' = (IF last'.op = "insert_resolved"
                          THEN messages \cup {last'.w.message} ELSE messages)]_vars

====
